---- MODULE Spec2Model ----
(***************************************************************************)
(* WS_Server (src/main.go): the connection registry `clients`, the group   *)
(* store `rooms`, the single mutex `clientsMutex`, the per-connection      *)
(* session (handleWebSocket / handleMessages), the group fan-out           *)
(* (sendToRoom / joinRoom) and the one-shot POST ingress (sendMessage).    *)
(*                                                                         *)
(* Every goroutine is a task with a program counter.  A step of a task is  *)
(* the code between two points where it can block: the mutex Lock, the     *)
(* frame read, a peer write.  Code that touches nothing shared (reading    *)
(* and parsing a frame, decoding a request) is one step with the Lock that *)
(* follows it.                                                             *)
(***************************************************************************)
EXTENDS Integers, Sequences, FiniteSets, TLC

\* ---------------------------------------------------------------- bounds
NConn == 2          \* websocket connections accepted during a run
NPost == 1          \* concurrent POST /send requests
MaxLen == 2         \* longest user_ids list a frame or request carries

UserIds == {"1", "2"}
RoomIds == {"room1"}
Texts == {"hi"}
Bodies == {"big"}

Conns == 1..NConn
Posts == (NConn + 1)..(NConn + NPost)
Tasks == Conns \cup Posts
NoTask == 0

\* ------------------------------------------------------- bytes and JSON
\* A byte string on the wire.  kind "json" is a JSON object with the keys
\* the Message struct knows plus "body", which main.go's struct lacks;
\* kind "text" is a bare text; kind "garbage" does not parse.
Bytes(kind, type, message, body, room, user_ids) ==
    [kind |-> kind, type |-> type, message |-> message, body |-> body,
     room |-> room, user_ids |-> user_ids]

NoBytes == Bytes("none", "", "", "", "", <<>>)
Garbage == Bytes("garbage", "", "", "", "", <<>>)

IdLists == UNION {[1..k -> UserIds] : k \in 0..MaxLen}

JsonInputs ==
    {Bytes("json", "message", m, b, r, ids) :
        m \in Texts, b \in Bodies, r \in RoomIds \cup {""}, ids \in IdLists}

\* type Message struct (main.go 15-20)
NoMessage == [Type |-> "", Message |-> "", Room |-> "", UserIDs |-> <<>>]

\* json.Unmarshal / Decoder.Decode into Message: unknown keys are dropped
Unmarshal(b) ==
    IF b.kind = "json"
    THEN [err |-> FALSE,
          msg |-> [Type |-> b.type, Message |-> b.message,
                   Room |-> b.room, UserIDs |-> b.user_ids]]
    ELSE [err |-> TRUE, msg |-> NoMessage]

\* json.Marshal(msg): the struct's four keys (room, user_ids omitempty)
Marshal(m) == Bytes("json", m.Type, m.Message, "", m.Room, m.UserIDs)

\* []byte(msgObj.Message)
TextBytes(s) == Bytes("text", "", s, "", "", <<>>)

\* ---------------------------------------------------------------- state
VARIABLES
    pc,            \* task -> where it stands in its handler
    uid,           \* connection -> user_id of its request
    rid,           \* connection -> room_id of its request
    closed,        \* connections whose transport the server has closed
    clients,       \* the registry map: user id -> Client
    rooms,         \* the group map: room id -> sequence of user ids
    mutex,         \* clientsMutex: the task holding it, or NoTask
    frame,         \* task -> the bytes it read (frame or request body)
    usersInRoom,   \* task -> sendToRoom's local slice
    idx,           \* task -> position of its range loop
    wclient,       \* task -> the Client it is writing to
    sent,          \* task -> WriteMessage calls of its current fan-out
    resp,          \* POST task -> the HTTP response it wrote
    readFailed,    \* user ids whose session's read failed, none registered since
    unregistered,  \* user ids whose session ran delete, none registered since
    failedAtStart  \* task -> readFailed when its current route began

vars ==
    <<pc, uid, rid, closed, clients, rooms, mutex, frame, usersInRoom, idx,
      wclient, sent, resp, readFailed, unregistered, failedAtStart>>

NoClient == [conn |-> 0, id |-> ""]
EmptyMap == [x \in {} |-> 0]
NoResp == [status |-> 0, count |-> 0]

Init ==
    /\ pc = [t \in Tasks |-> IF t \in Conns THEN "new" ELSE "idle"]
    /\ uid = [c \in Conns |-> ""]
    /\ rid = [c \in Conns |-> ""]
    /\ closed = {}
    /\ clients = EmptyMap
    /\ rooms = EmptyMap
    /\ mutex = NoTask
    /\ frame = [t \in Tasks |-> NoBytes]
    /\ usersInRoom = [t \in Tasks |-> <<>>]
    /\ idx = [t \in Tasks |-> 0]
    /\ wclient = [t \in Tasks |-> NoClient]
    /\ sent = [t \in Tasks |-> <<>>]
    /\ resp = [p \in Posts |-> NoResp]
    /\ readFailed = {}
    /\ unregistered = {}
    /\ failedAtStart = [t \in Tasks |-> {}]

\* -------------------------------------------------------------- helpers
\* m[k] = v on a Go map
MapPut(m, k, v) == [x \in DOMAIN m \cup {k} |-> IF x = k THEN v ELSE m[x]]

\* delete(m, k)
MapDelete(m, k) == [x \in DOMAIN m \ {k} |-> m[x]]

\* append(rooms[roomID], userID): a missing key reads as the nil slice
AppendMember(rs, roomID, userID) ==
    MapPut(rs, roomID,
           Append(IF roomID \in DOMAIN rs THEN rs[roomID] ELSE <<>>, userID))

\* the msgObj a task decoded from the bytes it read
MsgOf(t) == Unmarshal(frame[t]).msg

\* faulty variant: the user_ids list is looked at before the room
RouteListFirst(m) ==
    IF Len(m.UserIDs) > 0 THEN "direct"
    ELSE IF m.Room # "" THEN "room"
    ELSE "none"

\* the branch handleMessages takes for a parsed frame (main.go 90-105)
RouteOf(m) ==
    IF m.Room # "" THEN "room"
    ELSE IF Len(m.UserIDs) > 0 THEN "direct"
    ELSE "none"

\* one WriteMessage call, as the fan-out's log keeps it
WriteRec(id, client, payload, err) ==
    [id |-> id, conn |-> client.conn, payload |-> payload, err |-> err]

\* a write to a transport the server closed fails; any other may fail too
\* (the peer is gone) or succeed
WriteErrs(client) == IF client.conn \in closed THEN {TRUE} ELSE BOOLEAN

\* ------------------------------------------- handleWebSocket (142-175)
\* upgrader.Upgrade fails: the handler returns, no connection exists
UpgradeFail(c) ==
    /\ pc[c] = "new"
    /\ pc' = [pc EXCEPT ![c] = "failed"]
    /\ UNCHANGED <<uid, rid, closed, clients, rooms, mutex, frame, usersInRoom,
                   idx, wclient, sent, resp, readFailed, unregistered,
                   failedAtStart>>

\* faulty variant: the room is joined before the user_id is looked at
WsRejectJoined(c, roomID) ==
    /\ pc[c] = "new"
    /\ rid' = [rid EXCEPT ![c] = roomID]
    /\ rooms' = IF roomID # "" THEN AppendMember(rooms, roomID, "") ELSE rooms
    /\ closed' = closed \cup {c}
    /\ pc' = [pc EXCEPT ![c] = "closed"]
    /\ UNCHANGED <<uid, clients, mutex, frame, usersInRoom, idx, wclient, sent,
                   resp, readFailed, unregistered, failedAtStart>>

\* the handshake succeeds with user_id == "": conn.Close() and return
WsReject(c, roomID) ==
    /\ pc[c] = "new"
    /\ rid' = [rid EXCEPT ![c] = roomID]
    /\ closed' = closed \cup {c}
    /\ pc' = [pc EXCEPT ![c] = "closed"]
    /\ UNCHANGED <<uid, clients, rooms, mutex, frame, usersInRoom, idx,
                   wclient, sent, resp, readFailed, unregistered,
                   failedAtStart>>

\* the handshake succeeds with a user_id: go on to clientsMutex.Lock() (163)
WsAccept(c, userID, roomID) ==
    /\ pc[c] = "new"
    /\ userID # ""
    /\ uid' = [uid EXCEPT ![c] = userID]
    /\ rid' = [rid EXCEPT ![c] = roomID]
    /\ pc' = [pc EXCEPT ![c] = "wsLock"]
    /\ UNCHANGED <<closed, clients, rooms, mutex, frame, usersInRoom, idx,
                   wclient, sent, resp, readFailed, unregistered,
                   failedAtStart>>

\* clientsMutex.Lock() returns (163)
WsLock(c) ==
    /\ pc[c] = "wsLock"
    /\ mutex = NoTask
    /\ mutex' = c
    /\ pc' = [pc EXCEPT ![c] = "wsRegister"]
    /\ UNCHANGED <<uid, rid, closed, clients, rooms, frame, usersInRoom, idx,
                   wclient, sent, resp, readFailed, unregistered,
                   failedAtStart>>

\* faulty variant: an identifier that is already registered keeps its connection
RegisterFirstWins(cl, c, userID) ==
    IF userID \in DOMAIN cl THEN cl
    ELSE MapPut(cl, userID, [conn |-> c, id |-> userID])

\* clients[userID] = &Client{conn, id} (164)
Register(cl, c, userID) == MapPut(cl, userID, [conn |-> c, id |-> userID])

\* clients[userID] = ...; Unlock(); then roomID != "" chooses joinRoom (164-171)
WsRegister(c) ==
    /\ pc[c] = "wsRegister"
    /\ mutex = c
    /\ clients' = Register(clients, c, uid[c])
    /\ mutex' = NoTask
    /\ pc' = [pc EXCEPT ![c] = IF rid[c] # "" THEN "joinLock" ELSE "read"]
    /\ readFailed' = readFailed \ {uid[c]}
    /\ unregistered' = unregistered \ {uid[c]}
    /\ failedAtStart' = [t \in Tasks |-> failedAtStart[t] \ {uid[c]}]
    /\ UNCHANGED <<uid, rid, closed, rooms, frame, usersInRoom, idx, wclient,
                   sent, resp>>

\* ------------------------------------------------- joinRoom (132-139)
JoinLock(c) ==
    /\ pc[c] = "joinLock"
    /\ mutex = NoTask
    /\ mutex' = c
    /\ pc' = [pc EXCEPT ![c] = "joinAppend"]
    /\ UNCHANGED <<uid, rid, closed, clients, rooms, frame, usersInRoom, idx,
                   wclient, sent, resp, readFailed, unregistered,
                   failedAtStart>>

\* faulty variant: the new member is put in front
JoinPrepend(rs, userID, roomID) ==
    MapPut(rs, roomID,
           <<userID>> \o (IF roomID \in DOMAIN rs THEN rs[roomID] ELSE <<>>))

\* rooms[roomID] = append(rooms[roomID], userID) (137)
Join(rs, userID, roomID) == AppendMember(rs, roomID, userID)

\* the append, the deferred Unlock, and handleMessages begins (137-139, 174)
JoinAppend(c) ==
    /\ pc[c] = "joinAppend"
    /\ mutex = c
    /\ rooms' = Join(rooms, uid[c], rid[c])
    /\ mutex' = NoTask
    /\ pc' = [pc EXCEPT ![c] = "read"]
    /\ UNCHANGED <<uid, rid, closed, clients, frame, usersInRoom, idx, wclient,
                   sent, resp, readFailed, unregistered, failedAtStart>>

\* ---------------------------------------------- handleMessages (68-107)
\* faulty variant: the transport is closed at the read error, before the
\* delete
ReadFailClose(c) ==
    /\ pc[c] = "read"
    /\ pc' = [pc EXCEPT ![c] = "delLock"]
    /\ readFailed' = readFailed \cup {uid[c]}
    /\ closed' = closed \cup {c}
    /\ UNCHANGED <<uid, rid, clients, rooms, mutex, frame, usersInRoom,
                   idx, wclient, sent, resp, unregistered, failedAtStart>>

\* conn.ReadMessage() returns an error (73-75): go on to Lock() (76)
ReadFail(c) ==
    /\ pc[c] = "read"
    /\ pc' = [pc EXCEPT ![c] = "delLock"]
    /\ readFailed' = readFailed \cup {uid[c]}
    /\ UNCHANGED <<uid, rid, closed, clients, rooms, mutex, frame, usersInRoom,
                   idx, wclient, sent, resp, unregistered, failedAtStart>>

\* clientsMutex.Lock() returns (76)
DelLock(c) ==
    /\ pc[c] = "delLock"
    /\ mutex = NoTask
    /\ mutex' = c
    /\ pc' = [pc EXCEPT ![c] = "delete"]
    /\ UNCHANGED <<uid, rid, closed, clients, rooms, frame, usersInRoom, idx,
                   wclient, sent, resp, readFailed, unregistered,
                   failedAtStart>>

\* faulty variant: the entry is left in the map
UnregisterKeep(cl, c, userID) == cl

\* delete(clients, userID) (77): by key, whatever connection the entry holds
Unregister(cl, c, userID) == MapDelete(cl, userID)

\* faulty variant: no break, the session reads again after its delete
DeleteNoBreak(c) ==
    /\ pc[c] = "delete"
    /\ mutex = c
    /\ clients' = Unregister(clients, c, uid[c])
    /\ mutex' = NoTask
    /\ pc' = [pc EXCEPT ![c] = "read"]
    /\ unregistered' = unregistered \cup {uid[c]}
    /\ UNCHANGED <<uid, rid, closed, rooms, frame, usersInRoom, idx, wclient,
                   sent, resp, readFailed, failedAtStart>>

\* delete, Unlock, break (77-79)
Delete(c) ==
    /\ pc[c] = "delete"
    /\ mutex = c
    /\ clients' = Unregister(clients, c, uid[c])
    /\ mutex' = NoTask
    /\ pc' = [pc EXCEPT ![c] = "closing"]
    /\ unregistered' = unregistered \cup {uid[c]}
    /\ UNCHANGED <<uid, rid, closed, rooms, frame, usersInRoom, idx, wclient,
                   sent, resp, readFailed, failedAtStart>>

\* the deferred conn.Close() (69) as handleMessages returns
CloseConn(c) ==
    /\ pc[c] = "closing"
    /\ closed' = closed \cup {c}
    /\ pc' = [pc EXCEPT ![c] = "closed"]
    /\ UNCHANGED <<uid, rid, clients, rooms, mutex, frame, usersInRoom, idx,
                   wclient, sent, resp, readFailed, unregistered,
                   failedAtStart>>

\* a frame is read and json.Unmarshal fails (73, 84)
ReadMalformed(c) ==
    /\ pc[c] = "read"
    /\ Unmarshal(Garbage).err
    /\ pc' = [pc EXCEPT ![c] = "parseError"]
    /\ UNCHANGED <<uid, rid, closed, clients, rooms, mutex, frame, usersInRoom,
                   idx, wclient, sent, resp, readFailed, unregistered,
                   failedAtStart>>

\* faulty variant: the parse error leaves the loop as a read error does
SkipFrameBreak(c) ==
    /\ pc[c] = "parseError"
    /\ pc' = [pc EXCEPT ![c] = "delLock"]
    /\ UNCHANGED <<uid, rid, closed, clients, rooms, mutex, frame, usersInRoom,
                   idx, wclient, sent, resp, readFailed, unregistered,
                   failedAtStart>>

\* the parse error is logged and `continue` goes back to the read (85-86)
SkipFrame(c) ==
    /\ pc[c] = "parseError"
    /\ pc' = [pc EXCEPT ![c] = "read"]
    /\ UNCHANGED <<uid, rid, closed, clients, rooms, mutex, frame, usersInRoom,
                   idx, wclient, sent, resp, readFailed, unregistered,
                   failedAtStart>>

\* a frame is read and parsed, and names neither a room nor a user id:
\* no branch of 90-105 is taken and the loop reads again
ReadUnrouted(c, b) ==
    /\ pc[c] = "read"
    /\ ~Unmarshal(b).err
    /\ RouteOf(Unmarshal(b).msg) = "none"
    /\ UNCHANGED vars

\* the slice a task's range loop runs over
LoopIds(t) ==
    IF pc[t] \in {"roomLoop", "roomWrite"} THEN usersInRoom[t]
    ELSE MsgOf(t).UserIDs

\* `client, ok := clients[id]` (97, 123, 198)
Found(cl, id) == id \in DOMAIN cl

\* the range loop's advance to its next element (96, 122, 197); the faulty
\* variant leaves the loop after its first write
NextIndexBreak(i, ids) == Len(ids) + 1

NextIndex(i, ids) == i + 1

\* the loop looks its next id up: absent, it moves on; present, it calls
\* WriteMessage on the entry's connection
Lookup(t, loopPc, writePc) ==
    /\ pc[t] = loopPc
    /\ idx[t] <= Len(LoopIds(t))
    /\ LET id == LoopIds(t)[idx[t]]
       IN  IF Found(clients, id)
           THEN /\ wclient' = [wclient EXCEPT ![t] = clients[id]]
                /\ pc' = [pc EXCEPT ![t] = writePc]
                /\ idx' = idx
           ELSE /\ idx' = [idx EXCEPT ![t] = idx[t] + 1]
                /\ UNCHANGED <<pc, wclient>>
    /\ UNCHANGED <<uid, rid, closed, clients, rooms, mutex, frame, usersInRoom,
                   sent, resp, readFailed, unregistered, failedAtStart>>

\* faulty variant: a failed write drops the recipient from the registry
WriteReturnEvict(t, loopPc, writePc, payload, err) ==
    /\ pc[t] = writePc
    /\ err \in WriteErrs(wclient[t])
    /\ sent' = [sent EXCEPT ![t] =
                  Append(sent[t],
                         WriteRec(LoopIds(t)[idx[t]], wclient[t], payload, err))]
    /\ idx' = [idx EXCEPT ![t] = NextIndex(idx[t], LoopIds(t))]
    /\ wclient' = [wclient EXCEPT ![t] = NoClient]
    /\ pc' = [pc EXCEPT ![t] = loopPc]
    /\ clients' = IF err THEN MapDelete(clients, LoopIds(t)[idx[t]]) ELSE clients
    /\ UNCHANGED <<uid, rid, closed, rooms, mutex, frame, usersInRoom,
                   resp, readFailed, unregistered, failedAtStart>>

\* WriteMessage returns; an error is logged and the loop moves on
WriteReturn(t, loopPc, writePc, payload, err) ==
    /\ pc[t] = writePc
    /\ err \in WriteErrs(wclient[t])
    /\ sent' = [sent EXCEPT ![t] =
                  Append(sent[t],
                         WriteRec(LoopIds(t)[idx[t]], wclient[t], payload, err))]
    /\ idx' = [idx EXCEPT ![t] = NextIndex(idx[t], LoopIds(t))]
    /\ wclient' = [wclient EXCEPT ![t] = NoClient]
    /\ pc' = [pc EXCEPT ![t] = loopPc]
    /\ UNCHANGED <<uid, rid, closed, clients, rooms, mutex, frame, usersInRoom,
                   resp, readFailed, unregistered, failedAtStart>>

\* faulty variant: the session unlocks and reads again although its loop
\* has ids left
LoopDoneEarly(c, loopPc) ==
    /\ pc[c] = loopPc
    /\ mutex = c
    /\ mutex' = NoTask
    /\ pc' = [pc EXCEPT ![c] = "read"]
    /\ frame' = [frame EXCEPT ![c] = NoBytes]
    /\ usersInRoom' = [usersInRoom EXCEPT ![c] = <<>>]
    /\ idx' = [idx EXCEPT ![c] = 0]
    /\ sent' = [sent EXCEPT ![c] = <<>>]
    /\ failedAtStart' = [failedAtStart EXCEPT ![c] = {}]
    /\ UNCHANGED <<uid, rid, closed, clients, rooms, wclient, resp, readFailed,
                   unregistered>>

\* a session's fan-out is over: Unlock, and the for loop reads again
LoopDone(c, loopPc) ==
    /\ pc[c] = loopPc
    /\ mutex = c
    /\ idx[c] > Len(LoopIds(c))
    /\ mutex' = NoTask
    /\ pc' = [pc EXCEPT ![c] = "read"]
    /\ frame' = [frame EXCEPT ![c] = NoBytes]
    /\ usersInRoom' = [usersInRoom EXCEPT ![c] = <<>>]
    /\ idx' = [idx EXCEPT ![c] = 0]
    /\ sent' = [sent EXCEPT ![c] = <<>>]
    /\ failedAtStart' = [failedAtStart EXCEPT ![c] = {}]
    /\ UNCHANGED <<uid, rid, closed, clients, rooms, wclient, resp, readFailed,
                   unregistered>>

\* faulty variant: the direct branch runs its loop without the mutex
DirectNoLock(c, b) ==
    /\ pc[c] = "read"
    /\ ~Unmarshal(b).err
    /\ RouteOf(Unmarshal(b).msg) = "direct"
    /\ frame' = [frame EXCEPT ![c] = b]
    /\ pc' = [pc EXCEPT ![c] = "directLoop"]
    /\ idx' = [idx EXCEPT ![c] = 1]
    /\ failedAtStart' = [failedAtStart EXCEPT ![c] = readFailed]
    /\ UNCHANGED <<uid, rid, closed, clients, rooms, mutex, usersInRoom,
                   wclient, sent, resp, readFailed, unregistered>>

\* a frame is read and parsed, the direct branch is chosen and its
\* clientsMutex.Lock() returns (73-95).  Reading and parsing touch nothing
\* shared, so they are one step with the Lock that follows them.
DirectLock(c, b) ==
    /\ pc[c] = "read"
    /\ ~Unmarshal(b).err
    /\ RouteOf(Unmarshal(b).msg) = "direct"
    /\ mutex = NoTask
    /\ mutex' = c
    /\ frame' = [frame EXCEPT ![c] = b]
    /\ pc' = [pc EXCEPT ![c] = "directLoop"]
    /\ idx' = [idx EXCEPT ![c] = 1]
    /\ failedAtStart' = [failedAtStart EXCEPT ![c] = readFailed]
    /\ UNCHANGED <<uid, rid, closed, clients, rooms, usersInRoom, wclient, sent,
                   resp, readFailed, unregistered>>

\* what the direct branch writes: msg, the bytes it read (98)
DirectPayload(c) == frame[c]

DirectLookup(c) == Lookup(c, "directLoop", "directWrite")

DirectWrite(c, err) ==
    WriteReturn(c, "directLoop", "directWrite", DirectPayload(c), err)

\* clientsMutex.Unlock() (104)
DirectDone(c) == LoopDone(c, "directLoop")

\* ------------------------------------------------ sendToRoom (109-130)
\* faulty variant: sendToRoom runs without the mutex
RoomNoLock(c, b) ==
    /\ pc[c] = "read"
    /\ ~Unmarshal(b).err
    /\ RouteOf(Unmarshal(b).msg) = "room"
    /\ frame' = [frame EXCEPT ![c] = b]
    /\ pc' = [pc EXCEPT ![c] = "roomResolve"]
    /\ failedAtStart' = [failedAtStart EXCEPT ![c] = readFailed]
    /\ UNCHANGED <<uid, rid, closed, clients, rooms, mutex, usersInRoom, idx,
                   wclient, sent, resp, readFailed, unregistered>>

\* a frame is read and parsed, the room branch calls sendToRoom and its
\* clientsMutex.Lock() returns (73-92, 110)
RoomLock(c, b) ==
    /\ pc[c] = "read"
    /\ ~Unmarshal(b).err
    /\ RouteOf(Unmarshal(b).msg) = "room"
    /\ mutex = NoTask
    /\ mutex' = c
    /\ frame' = [frame EXCEPT ![c] = b]
    /\ pc' = [pc EXCEPT ![c] = "roomResolve"]
    /\ failedAtStart' = [failedAtStart EXCEPT ![c] = readFailed]
    /\ UNCHANGED <<uid, rid, closed, clients, rooms, usersInRoom, idx, wclient,
                   sent, resp, readFailed, unregistered>>

\* faulty variant: each member once, at its first place
RECURSIVE Dedup(_)
Dedup(ids) ==
    IF ids = <<>> THEN <<>>
    ELSE LET front == Dedup(SubSeq(ids, 1, Len(ids) - 1))
             last == ids[Len(ids)]
         IN  IF \E i \in 1..Len(front) : front[i] = last
             THEN front ELSE Append(front, last)

RoomMembersDedup(rs, roomID) == Dedup(rs[roomID])

\* `usersInRoom, exists := rooms[roomID]` (115)
RoomMembers(rs, roomID) == rs[roomID]

\* faulty variant: the early return leaves the mutex locked
RoomMissingLocked(c) ==
    /\ pc[c] = "roomResolve"
    /\ mutex = c
    /\ MsgOf(c).Room \notin DOMAIN rooms
    /\ pc' = [pc EXCEPT ![c] = "read"]
    /\ frame' = [frame EXCEPT ![c] = NoBytes]
    /\ failedAtStart' = [failedAtStart EXCEPT ![c] = {}]
    /\ UNCHANGED <<uid, rid, closed, clients, rooms, mutex, usersInRoom, idx,
                   wclient, sent, resp, readFailed, unregistered>>

\* the room does not exist: log, return, deferred Unlock (116-119)
RoomMissing(c) ==
    /\ pc[c] = "roomResolve"
    /\ mutex = c
    /\ MsgOf(c).Room \notin DOMAIN rooms
    /\ mutex' = NoTask
    /\ pc' = [pc EXCEPT ![c] = "read"]
    /\ frame' = [frame EXCEPT ![c] = NoBytes]
    /\ failedAtStart' = [failedAtStart EXCEPT ![c] = {}]
    /\ UNCHANGED <<uid, rid, closed, clients, rooms, usersInRoom, idx, wclient,
                   sent, resp, readFailed, unregistered>>

\* the room exists: the range loop starts over its members (115, 122)
RoomResolve(c) ==
    /\ pc[c] = "roomResolve"
    /\ MsgOf(c).Room \in DOMAIN rooms
    /\ usersInRoom' = [usersInRoom EXCEPT ![c] = RoomMembers(rooms, MsgOf(c).Room)]
    /\ idx' = [idx EXCEPT ![c] = 1]
    /\ pc' = [pc EXCEPT ![c] = "roomLoop"]
    /\ UNCHANGED <<uid, rid, closed, clients, rooms, mutex, frame, wclient, sent,
                   resp, readFailed, unregistered, failedAtStart>>

\* what sendToRoom writes: []byte(msgObj.Message) (124)
RoomPayload(c) == TextBytes(MsgOf(c).Message)

RoomLookup(c) == Lookup(c, "roomLoop", "roomWrite")

RoomWrite(c, err) == WriteReturn(c, "roomLoop", "roomWrite", RoomPayload(c), err)

\* sendToRoom returns, deferred Unlock (111, 130)
RoomDone(c) == LoopDone(c, "roomLoop")

\* ------------------------------------------------ sendMessage (178-217)
\* Decode fails: http.Error(400), return (182-185)
PostParseError(p) ==
    /\ pc[p] = "idle"
    /\ Unmarshal(Garbage).err
    /\ frame' = [frame EXCEPT ![p] = Garbage]
    /\ resp' = [resp EXCEPT ![p] = [status |-> 400, count |-> 0]]
    /\ pc' = [pc EXCEPT ![p] = "postDone"]
    /\ UNCHANGED <<uid, rid, closed, clients, rooms, mutex, usersInRoom, idx,
                   wclient, sent, readFailed, unregistered, failedAtStart>>

\* faulty variant: a request that names a room passes without user_ids
NoUserIDsNorRoom(m) == Len(m.UserIDs) = 0 /\ m.Room = ""

\* `len(msg.UserIDs) == 0` (188)
NoUserIDs(m) == Len(m.UserIDs) = 0

\* no user_ids: http.Error(400), return (188-191)
PostNoUserIDs(p, b) ==
    /\ pc[p] = "idle"
    /\ ~Unmarshal(b).err
    /\ NoUserIDs(Unmarshal(b).msg)
    /\ frame' = [frame EXCEPT ![p] = b]
    /\ resp' = [resp EXCEPT ![p] = [status |-> 400, count |-> 0]]
    /\ pc' = [pc EXCEPT ![p] = "postDone"]
    /\ UNCHANGED <<uid, rid, closed, clients, rooms, mutex, usersInRoom, idx,
                   wclient, sent, readFailed, unregistered, failedAtStart>>

\* the request is decoded and accepted and clientsMutex.Lock() returns
\* (180-194)
PostLock(p, b) ==
    /\ pc[p] = "idle"
    /\ ~Unmarshal(b).err
    /\ ~NoUserIDs(Unmarshal(b).msg)
    /\ mutex = NoTask
    /\ mutex' = p
    /\ frame' = [frame EXCEPT ![p] = b]
    /\ pc' = [pc EXCEPT ![p] = "postLoop"]
    /\ idx' = [idx EXCEPT ![p] = 1]
    /\ failedAtStart' = [failedAtStart EXCEPT ![p] = readFailed]
    /\ UNCHANGED <<uid, rid, closed, clients, rooms, usersInRoom, wclient, sent,
                   resp, readFailed, unregistered>>

\* what sendMessage writes: json.Marshal(msg) (200)
PostPayload(p) == Marshal(MsgOf(p))

PostLookup(p) == Lookup(p, "postLoop", "postWrite")

PostWrite(p, err) == WriteReturn(p, "postLoop", "postWrite", PostPayload(p), err)

\* the number in "Message sent to %d clients" (216)
SentCount(m, log) == Len(m.UserIDs)

\* WriteHeader(200) and the count (215-216), the mutex still held
PostRespond(p) ==
    /\ pc[p] = "postLoop"
    /\ idx[p] > Len(LoopIds(p))
    /\ resp' = [resp EXCEPT ![p] =
                  [status |-> 200, count |-> SentCount(MsgOf(p), sent[p])]]
    /\ pc' = [pc EXCEPT ![p] = "postUnlock"]
    /\ UNCHANGED <<uid, rid, closed, clients, rooms, mutex, frame, usersInRoom,
                   idx, wclient, sent, readFailed, unregistered, failedAtStart>>

\* the deferred Unlock (195) as sendMessage returns; its locals are gone
PostUnlock(p) ==
    /\ pc[p] = "postUnlock"
    /\ mutex = p
    /\ mutex' = NoTask
    /\ pc' = [pc EXCEPT ![p] = "postDone"]
    /\ frame' = [frame EXCEPT ![p] = NoBytes]
    /\ idx' = [idx EXCEPT ![p] = 0]
    /\ sent' = [sent EXCEPT ![p] = <<>>]
    /\ failedAtStart' = [failedAtStart EXCEPT ![p] = {}]
    /\ UNCHANGED <<uid, rid, closed, clients, rooms, usersInRoom, wclient, resp,
                   readFailed, unregistered>>

\* the handler has returned; the server can take the next request
PostReturn(p) ==
    /\ pc[p] = "postDone"
    /\ pc' = [pc EXCEPT ![p] = "idle"]
    /\ frame' = [frame EXCEPT ![p] = NoBytes]
    /\ resp' = [resp EXCEPT ![p] = NoResp]
    /\ UNCHANGED <<uid, rid, closed, clients, rooms, mutex, usersInRoom, idx,
                   wclient, sent, readFailed, unregistered, failedAtStart>>

\* ------------------------------------------------------- specification
ConnStep(c) ==
    \/ UpgradeFail(c)
    \/ \E r \in RoomIds \cup {""} : WsReject(c, r)
    \/ \E u \in UserIds, r \in RoomIds \cup {""} : WsAccept(c, u, r)
    \/ WsLock(c)
    \/ WsRegister(c)
    \/ JoinLock(c)
    \/ JoinAppend(c)
    \/ ReadFail(c)
    \/ DelLock(c)
    \/ Delete(c)
    \/ CloseConn(c)
    \/ ReadMalformed(c)
    \/ SkipFrame(c)
    \/ \E b \in JsonInputs : ReadUnrouted(c, b)
    \/ \E b \in JsonInputs : DirectLock(c, b)
    \/ DirectLookup(c)
    \/ \E err \in BOOLEAN : DirectWrite(c, err)
    \/ DirectDone(c)
    \/ \E b \in JsonInputs : RoomLock(c, b)
    \/ RoomMissing(c)
    \/ RoomResolve(c)
    \/ RoomLookup(c)
    \/ \E err \in BOOLEAN : RoomWrite(c, err)
    \/ RoomDone(c)

PostStep(p) ==
    \/ PostParseError(p)
    \/ \E b \in JsonInputs : PostNoUserIDs(p, b)
    \/ \E b \in JsonInputs : PostLock(p, b)
    \/ PostLookup(p)
    \/ \E err \in BOOLEAN : PostWrite(p, err)
    \/ PostRespond(p)
    \/ PostUnlock(p)
    \/ PostReturn(p)

Next ==
    \/ \E c \in Conns : ConnStep(c)
    \/ \E p \in Posts : PostStep(p)

Spec == Init /\ [][Next]_vars

\* a step of connection c that waits for nothing: it holds the mutex, or
\* it is local (the skip of a bad frame, the deferred Close)
ConnProgress(c) ==
    \/ WsRegister(c)
    \/ JoinAppend(c)
    \/ Delete(c)
    \/ CloseConn(c)
    \/ SkipFrame(c)
    \/ DirectLookup(c)
    \/ \E err \in BOOLEAN : DirectWrite(c, err)
    \/ DirectDone(c)
    \/ RoomMissing(c)
    \/ RoomResolve(c)
    \/ RoomLookup(c)
    \/ \E err \in BOOLEAN : RoomWrite(c, err)
    \/ RoomDone(c)

\* the session's three clientsMutex.Lock() calls (main.go 162, 133, 76)
ConnLock(c) == WsLock(c) \/ JoinLock(c) \/ DelLock(c)

PostProgress(p) ==
    \/ PostLookup(p)
    \/ \E err \in BOOLEAN : PostWrite(p, err)
    \/ PostRespond(p)
    \/ PostUnlock(p)

\* The goroutines run (weak fairness of every step that waits for nothing,
\* a peer write being assumed to return), and a goroutine blocked in
\* clientsMutex.Lock() gets the mutex in the end although others keep
\* taking it: sync.Mutex hands a starving waiter the mutex (strong fairness
\* of the Lock() steps).  No frame, request or connection has to arrive.
Fairness ==
    /\ \A c \in Conns :
          /\ WF_vars(ConnProgress(c))
          /\ SF_vars(ConnLock(c))
    /\ \A p \in Posts : WF_vars(PostProgress(p))

\* the frames and requests of the fair specification: at most one user id,
\* and none beside a room
LiveInputs ==
    {b \in JsonInputs :
        Len(b.user_ids) <= 1 /\ (b.room # "" => b.user_ids = <<>>)}

LiveNext == Next /\ \A t \in Tasks : frame'[t] \in LiveInputs \cup {NoBytes, Garbage}

FairSpec == Init /\ [][LiveNext]_vars /\ Fairness

\* ------------------------------------------------------------ properties
RoomPcs == {"roomResolve", "roomLoop", "roomWrite"}
DirectPcs == {"directLoop", "directWrite"}
PostPcs == {"postLoop", "postWrite", "postUnlock"}

Range(f) == {f[i] : i \in DOMAIN f}

\* the ids of a list that have a registry entry, in list order
RegisteredOf(ids) == SelectSeq(ids, LAMBDA u : u \in DOMAIN clients)

\* the connections a log's writes went to, with the ids they were for
Targets(log) == [i \in 1..Len(log) |-> <<log[i].id, log[i].conn>>]

\* one write per registered id of a list, to the connection registered for it
Deliveries(ids) ==
    LET reg == RegisteredOf(ids)
    IN  [i \in 1..Len(reg) |-> <<reg[i], clients[reg[i]].conn>>]

\* the part of its list a task's loop has gone through
DoneIds(t) == SubSeq(LoopIds(t), 1, idx[t] - 1)

\* task t's loop has ended and t still holds the mutex
FanoutOver(t) ==
    /\ pc[t] \in {"roomLoop", "directLoop", "postLoop", "postUnlock"}
    /\ idx[t] > Len(LoopIds(t))

\* a step in which task t's WriteMessage call returns
Wrote(t) == Len(sent'[t]) = Len(sent[t]) + 1

LastWrite(t) == sent'[t][Len(sent'[t])]

\* C1: the count a 200 response of sendMessage reports is the number of
\* addressed ids that had a registered connection during the fan-out
\* (the registry is read while the mutex that froze it is still held).
C1_CountIsDelivered ==
    \A p \in Posts :
        (pc[p] = "postUnlock" /\ resp[p].status = 200)
            => resp[p].count = Len(RegisteredOf(MsgOf(p).UserIDs))

\* C2 as stated: a route that starts after the read of u's session failed,
\* no connection for u having registered since, writes nothing for u.
C2_NoWriteAfterReadFail ==
    [][\A t \in Tasks : Wrote(t) => LastWrite(t).id \notin failedAtStart[t]]_vars

\* C2 as amended: once the session of u has run its delete, and until a
\* connection registers for u again, no route writes anything for u.
C2_NoWriteAfterUnregister ==
    [][\A t \in Tasks : Wrote(t) => LastWrite(t).id \notin unregistered]_vars

\* a fan-out that addressed an unregistered-by-delete id has ended without
\* a write for it
C2_Witness ==
    \E t \in Tasks :
        /\ FanoutOver(t)
        /\ \E i \in 1..Len(LoopIds(t)) :
              /\ LoopIds(t)[i] \in unregistered
              /\ \A k \in 1..Len(sent[t]) : sent[t][k].id # LoopIds(t)[i]

\* C3: a group-routed frame makes one write per occurrence of a registered
\* id in the group's member sequence, in join order, duplicates kept;
\* members without a connection get none; a group never joined gets none
\* and the session goes on reading.
C3_RoomFanout ==
    \A c \in Conns :
        /\ pc[c] \in {"roomLoop", "roomWrite"} =>
              /\ MsgOf(c).Room \in DOMAIN rooms
              /\ Targets(sent[c]) =
                    Deliveries(SubSeq(rooms[MsgOf(c).Room], 1, idx[c] - 1))
              /\ FanoutOver(c) =>
                    Targets(sent[c]) = Deliveries(rooms[MsgOf(c).Room])
        /\ pc[c] = "roomResolve" => sent[c] = <<>>
        /\ (pc[c] = "read" /\ mutex # c) => sent[c] = <<>>

\* a user who joined twice has been written to twice by one group fan-out
C3_Witness ==
    \E c \in Conns :
        /\ pc[c] = "roomLoop"
        /\ FanoutOver(c)
        /\ Len(sent[c]) = 2
        /\ sent[c][1].id = sent[c][2].id
        /\ Len(rooms[MsgOf(c).Room]) = 2

\* C4: the payload a group-routed frame writes to each recipient is the
\* inbound frame, byte for byte.
C4_RoomPayloadVerbatim ==
    \A c \in Conns :
        pc[c] \in RoomPcs =>
            \A i \in 1..Len(sent[c]) : sent[c][i].payload = frame[c]

\* C5: a direct-list frame is written, as read, to every listed id that has
\* a registered connection, once per occurrence and in list order.
C5_DirectFanout ==
    \A c \in Conns :
        pc[c] \in DirectPcs =>
            /\ Targets(sent[c]) = Deliveries(DoneIds(c))
            /\ \A i \in 1..Len(sent[c]) : sent[c][i].payload = frame[c]

\* two different registered users, both listed, have both been written to
C5_Witness ==
    \E c \in Conns :
        /\ pc[c] = "directLoop"
        /\ FanoutOver(c)
        /\ Len(sent[c]) = 2
        /\ sent[c][1].id # sent[c][2].id
        /\ sent[c][1].conn # sent[c][2].conn

\* C6: a frame with a room is routed by the group only (its user_ids are
\* not looked at); without a room and with user_ids, by the list only; with
\* neither, it starts no fan-out and no write.
C6_RoutingPrecedence ==
    \A c \in Conns :
        LET m == MsgOf(c)
        IN  IF frame[c] = NoBytes
            THEN sent[c] = <<>> /\ pc[c] \notin RoomPcs \cup DirectPcs
            ELSE IF m.Room # ""
            THEN /\ pc[c] \in RoomPcs
                 /\ \A i \in 1..Len(sent[c]) :
                       /\ m.Room \in DOMAIN rooms
                       /\ sent[c][i].id \in Range(rooms[m.Room])
            ELSE /\ Len(m.UserIDs) > 0
                 /\ pc[c] \in DirectPcs
                 /\ \A i \in 1..Len(sent[c]) : sent[c][i].id \in Range(m.UserIDs)

\* a frame with a room and a user_ids entry that is registered but not a
\* member: the group fan-out has ended and that id got nothing
C6_Witness ==
    \E c \in Conns :
        /\ pc[c] = "roomLoop"
        /\ FanoutOver(c)
        /\ sent[c] # <<>>
        /\ \E u \in Range(MsgOf(c).UserIDs) :
              /\ u \in DOMAIN clients
              /\ u \notin Range(usersInRoom[c])
              /\ \A i \in 1..Len(sent[c]) : sent[c][i].id # u

\* C7: sendMessage answers 400 to every request without user_ids, also one
\* that names a room, writes nothing for it and changes neither map; an
\* accepted request is routed by user_ids alone, never by room membership.
C7_PostDirectOnly ==
    [][\A p \in Posts :
          /\ (pc[p] = "idle" /\ pc'[p] # "idle") =>
                /\ UNCHANGED <<clients, rooms, sent>>
                /\ Len(Unmarshal(frame'[p]).msg.UserIDs) = 0 =>
                      /\ resp'[p].status = 400
                      /\ pc'[p] = "postDone"
                      /\ mutex' # p
          /\ pc[p] \in PostPcs =>
                /\ UNCHANGED <<clients, rooms>>
                /\ Targets(sent'[p]) = Deliveries(DoneIds(p))'
                /\ Len(MsgOf(p).UserIDs) > 0]_vars

\* a request that names a room and no user_ids has been answered 400
C7_Witness ==
    \E p \in Posts :
        /\ pc[p] = "postDone"
        /\ resp[p].status = 400
        /\ MsgOf(p).Room # ""
        /\ MsgOf(p).Room \in DOMAIN rooms
        /\ clients # EmptyMap

\* C8: registering replaces the entry of the identifier and nothing else:
\* the new connection is the one looked up and written to from then on,
\* and the replaced connection is neither closed nor otherwise touched.
C8_LastWriteWins ==
    [][/\ \A c \in Conns :
             (pc[c] = "wsRegister" /\ pc'[c] # "wsRegister") =>
                 /\ DOMAIN clients' = DOMAIN clients \cup {uid[c]}
                 /\ clients'[uid[c]].conn = c
                 /\ \A u \in DOMAIN clients \ {uid[c]} : clients'[u] = clients[u]
                 /\ closed' = closed
                 /\ \A d \in Conns \ {c} : pc'[d] = pc[d]
       /\ \A t \in Tasks :
             Wrote(t) =>
                 /\ LastWrite(t).id \in DOMAIN clients
                 /\ LastWrite(t).conn = clients[LastWrite(t).id].conn]_vars

\* c2 replaced c1 for their identifier, c1 still reads with its transport
\* open, and a route has written to c2
C8_Witness ==
    \E c1, c2 \in Conns :
        /\ c1 # c2
        /\ uid[c1] = uid[c2]
        /\ pc[c1] = "read"
        /\ c1 \notin closed
        /\ uid[c1] \in DOMAIN clients
        /\ clients[uid[c1]].conn = c2
        /\ \E t \in Tasks : \E i \in 1..Len(sent[t]) : sent[t][i].conn = c2

\* C9: when the session of a replaced connection unregisters, the entry of
\* the connection that replaced it stays in the registry.
C9_UnregisterKeepsNewer ==
    [][\A c \in Conns :
          (/\ pc[c] = "delete"
           /\ pc'[c] = "closing"
           /\ uid[c] \in DOMAIN clients
           /\ clients[uid[c]].conn # c) => clients' = clients]_vars

\* C10: every step leaves each group's member sequence as it is or, in a
\* joinRoom step, appends one identifier to one group; no group goes away.
C10_AppendOnly ==
    [][/\ DOMAIN rooms \subseteq DOMAIN rooms'
       /\ \A g \in DOMAIN rooms' :
             LET old == IF g \in DOMAIN rooms THEN rooms[g] ELSE <<>>
             IN  \/ g \in DOMAIN rooms /\ rooms'[g] = old
                 \/ \E c \in Conns :
                       /\ pc[c] = "joinAppend"
                       /\ pc'[c] = "read"
                       /\ rid[c] = g
                       /\ rooms'[g] = Append(old, uid[c])
                       /\ \A h \in DOMAIN rooms \ {g} : rooms'[h] = rooms[h]]_vars

\* a group of two members of which the first one's session is closed and
\* whose identifier has no registry entry
C10_Witness ==
    \E g \in DOMAIN rooms :
        /\ Len(rooms[g]) = 2
        /\ rooms[g][1] # rooms[g][2]
        /\ rooms[g][1] \notin DOMAIN clients
        /\ \E c \in Conns : pc[c] = "closed" /\ uid[c] = rooms[g][1] /\ rid[c] = g

\* C11: a connection whose handshake succeeds without a user_id is closed
\* at once: its transport is closed in that step, neither map changes (its
\* room_id is not joined), the mutex is not taken, and it stays Closed,
\* never reading.
C11_EmptyUserRejected ==
    [][\A c \in Conns :
          /\ (pc[c] = "new" /\ pc'[c] \notin {"new", "failed"} /\ uid'[c] = "") =>
                /\ pc'[c] = "closed"
                /\ c \in closed'
                /\ UNCHANGED <<clients, rooms, mutex>>
          /\ pc[c] = "closed" => pc'[c] = "closed"
          /\ uid'[c] = "" =>
                /\ pc'[c] \in {"new", "failed", "closed"}
                /\ \A u \in DOMAIN clients' : clients'[u].conn # c
                /\ \A g \in DOMAIN rooms' : "" \notin Range(rooms'[g])]_vars

\* a connection that gave a room_id but no user_id is Closed
C11_Witness ==
    \E c \in Conns :
        /\ pc[c] = "closed"
        /\ uid[c] = ""
        /\ rid[c] # ""
        /\ c \in closed
        /\ rid[c] \notin DOMAIN rooms

LockWaitPcs == {"wsLock", "joinLock", "delLock"}

LoopPcs == {"roomLoop", "directLoop", "postLoop"}
WritePcs == {"roomWrite", "directWrite", "postWrite"}

C14_MalformedSkipped ==
    /\ [][\A c \in Conns :
            (pc[c] = "parseError" \/ pc'[c] = "parseError") =>
                /\ pc'[c] \in {"parseError", "read"}
                /\ pc[c] \in {"parseError", "read"}
                /\ (pc'[c] # pc[c] =>
                        UNCHANGED <<clients, rooms, sent, closed, mutex>>)]_vars
    /\ [](\A c \in Conns :
            pc[c] = "parseError" =>
                /\ sent[c] = <<>>
                /\ mutex # c
                /\ c \notin closed)
    /\ [][\A c \in Conns :
            (pc'[c] = "delLock" /\ pc[c] # "delLock") =>
                (pc[c] = "read" /\ uid[c] \in readFailed')]_vars

\* a registered session has met a frame that does not parse while another
\* task's fan-out has written to it
C14_Witness ==
    \E c \in Conns, t \in Tasks :
        /\ pc[c] = "parseError"
        /\ uid[c] \in DOMAIN clients
        /\ clients[uid[c]].conn = c
        /\ t # c
        /\ \E i \in 1..Len(sent[t]) : sent[t][i].conn = c

\* the places of the handlers between a Lock() and its Unlock()
LockedPcs ==
    {"wsRegister", "joinAppend", "delete", "roomResolve", "postUnlock"}
        \cup LoopPcs \cup WritePcs

\* C15: a task that stands between a Lock() and its Unlock() (where every
\* access to `clients` and `rooms` is) holds the mutex; the maps change only
\* in a step of the task that holds it; and from a fan-out's start to its
\* end no step changes either map.
C15_MapsUnderMutex ==
    /\ [](\A t \in Tasks : pc[t] \in LockedPcs => mutex = t)
    /\ [][(clients' # clients \/ rooms' # rooms) =>
            /\ mutex \in Conns
            /\ pc[mutex] \in {"wsRegister", "joinAppend", "delete"}
            /\ pc'[mutex] # pc[mutex]]_vars
    /\ [][\A t \in Tasks :
            pc[t] \in LoopPcs \cup WritePcs \cup {"roomResolve"} =>
                (clients' = clients /\ rooms' = rooms)]_vars

\* a fan-out has made a write and has ids left, while the session of one of
\* the ids on its list waits in Lock() to register or to unregister
C15_Witness ==
    \E t \in Tasks, c \in Conns :
        /\ pc[t] \in LoopPcs
        /\ Len(sent[t]) >= 1
        /\ idx[t] <= Len(LoopIds(t))
        /\ pc[c] \in {"wsLock", "delLock"}
        /\ uid[c] = LoopIds(t)[idx[t]]

\* C16: the mutex is held across no blocking I/O but a fan-out's write:
\* a session does not hold it where it reads a frame or closes its
\* transport, a rejected connection is closed without it, and sendMessage
\* does not hold it in the step that writes its HTTP response.
C16_OnlyWritesUnderMutex ==
    /\ [](\A c \in Conns : pc[c] \in {"read", "closing"} => mutex # c)
    /\ [][\A c \in Conns : (c \in closed' /\ c \notin closed) => mutex # c]_vars
    /\ [][\A p \in Posts :
            (resp'[p] # resp[p] /\ resp'[p].status # 0) => mutex # p]_vars

\* C17: a session works on one frame at a time.  Where it reads, nothing of
\* an earlier frame is left in flight; it takes a frame only there; every
\* write it makes carries the frame it holds; and it comes back to its read
\* only when the loop over that frame's list is over and has made every
\* write of it (or the frame's room does not exist).
C17_FramesInSequence ==
    /\ [](\A c \in Conns :
            pc[c] \in {"read", "parseError"} =>
                /\ frame[c] = NoBytes
                /\ sent[c] = <<>>
                /\ wclient[c] = NoClient
                /\ mutex # c)
    /\ [][\A c \in Conns :
            frame'[c] \notin {frame[c], NoBytes} =>
                (pc[c] = "read" /\ frame[c] = NoBytes)]_vars
    /\ [][\A c \in Conns :
            Wrote(c) =>
                /\ frame'[c] = frame[c]
                /\ LastWrite(c).payload \in {DirectPayload(c), RoomPayload(c)}]_vars
    /\ [][\A c \in Conns :
            (pc[c] \in LoopPcs \cup WritePcs \cup {"roomResolve"}
                /\ pc'[c] = "read") =>
                \/ /\ pc[c] = "roomResolve"
                   /\ MsgOf(c).Room \notin DOMAIN rooms
                \/ /\ FanoutOver(c)
                   /\ Targets(sent[c]) = Deliveries(LoopIds(c))]_vars

\* a session is in the second write of its frame's direct fan-out
C17_Witness ==
    \E c \in Conns :
        /\ pc[c] = "directWrite"
        /\ idx[c] = 2
        /\ Len(sent[c]) = 1
        /\ sent[c][1].payload = frame[c]

\* the places of a session from its read error to its end
EndingPcs == {"delLock", "delete", "closing"}

\* C18: a session whose read failed gets to its end: its delete is made
\* and its transport is closed; a session at its end stays there and its
\* connection is not registered again; and the steps that end a session
\* move no other task and close no other transport.
C18_ReadFailureEndsSession ==
    /\ \A c \in Conns :
          (pc[c] = "delLock") ~> (pc[c] = "closed" /\ c \in closed)
    /\ [](\A c \in Conns :
            (pc[c] \in {"closing", "closed"} /\ uid[c] # "") =>
                /\ \A u \in DOMAIN clients : clients[u].conn # c
                /\ pc[c] = "closed" => c \in closed)
    /\ [][\A c \in Conns :
            pc[c] = "closed" =>
                /\ pc'[c] = "closed"
                /\ \A u \in DOMAIN clients' : clients'[u].conn # c]_vars
    /\ [][\A c \in Conns :
            ((pc[c] = "read" /\ pc'[c] = "delLock")
                \/ (pc[c] \in EndingPcs /\ pc'[c] # pc[c])) =>
                /\ \A t \in Tasks \ {c} : pc'[t] = pc[t]
                /\ closed' \subseteq closed \cup {c}]_vars

\* a session has ended after a read error while another session, whose
\* connection is registered, is at its read
C18_Witness ==
    \E c, d \in Conns :
        /\ pc[c] = "closed"
        /\ uid[c] # ""
        /\ c \in closed
        /\ pc[d] = "read"
        /\ uid[d] \in DOMAIN clients
        /\ clients[uid[d]].conn = d

\* the tasks inside a WriteMessage call
Writers == {t \in Tasks : pc[t] \in WritePcs}

\* C19: a task inside WriteMessage holds the mutex, so there is at most one
\* such task at a time, and no two tasks are writing to one connection.
C19_OneWriterPerConnection ==
    /\ \A t \in Writers : mutex = t /\ wclient[t] # NoClient
    /\ \A t1, t2 \in Writers :
          wclient[t1].conn = wclient[t2].conn => t1 = t2

\* sendMessage is writing to a session's connection while that session and
\* another one are at their reads
C19_Witness ==
    \E p \in Posts, c, d \in Conns :
        /\ pc[p] = "postWrite"
        /\ wclient[p].conn = c
        /\ c # d
        /\ pc[c] = "read"
        /\ pc[d] = "read"
        /\ uid[d] \in DOMAIN clients
        /\ clients[uid[d]].conn = d

\* C20: no registry entry holds a connection whose transport the server has
\* closed, a fan-out neither is writing nor has written to one, and a
\* transport is closed only for a rejected request or by a session that has
\* made its delete, when no entry holds the connection.
C20_NoClosedConnRegistered ==
    /\ [](\A u \in DOMAIN clients : clients[u].conn \notin closed)
    /\ [](\A t \in Tasks :
            /\ wclient[t].conn \notin closed
            /\ \A i \in 1..Len(sent[t]) : sent[t][i].conn \notin closed)
    /\ [][\A c \in closed' \ closed :
            /\ \/ pc[c] = "new" /\ uid'[c] = ""
               \/ pc[c] = "closing"
            /\ \A u \in DOMAIN clients : clients[u].conn # c]_vars

\* a group fan-out has ended with a write made, having passed over a member
\* whose session has ended and whose transport is closed
C20_Witness ==
    \E t \in Conns, c \in closed :
        /\ pc[t] = "roomLoop"
        /\ FanoutOver(t)
        /\ Len(sent[t]) >= 1
        /\ uid[c] \in Range(usersInRoom[t])
        /\ uid[c] \notin DOMAIN clients

====
